---- MODULE Spec2Model ----
(***************************************************************************)
(* cli7z: a wrapper that runs the 7-Zip command line tool and parses its   *)
(* text output (Open / getInfo / getListing, TestPassword,                 *)
(* ExtractTo / ExtractWithPassword).                                       *)
(*                                                                         *)
(* Go strings are TLA+ strings; TLC evaluates Len, SubSeq and \o on them.  *)
(* The external tool is the environment: every invocation returns some     *)
(* (output, err) pair drawn from a finite set of outputs.                  *)
(***************************************************************************)
EXTENDS Integers, Sequences, FiniteSets, TLC

VARIABLES BINARY_NAME, f, pc, frame, calls, ret, exited

vars == <<BINARY_NAME, f, pc, frame, calls, ret, exited>>

(***************************************************************************)
(* Bounds of the model.                                                    *)
(***************************************************************************)
\* Longest free-form output, in lines, the tool returns to the detailed listing.
MaxLines == 3
\* Largest number of entry stanzas of a well-formed detailed listing.
MaxStanzas == 2
\* bufio.MaxScanTokenSize is 64*1024 in the Go library; the model scales it
\* down. Only "does a line reach the limit" matters to the program.
MaxScanTokenSize == 64

(***************************************************************************)
(* strings package                                                         *)
(***************************************************************************)
\* strings.Index, 1-based; 0 when sep does not occur in s.
RECURSIVE IndexFrom(_, _, _)
IndexFrom(s, sep, i) ==
    IF i + Len(sep) - 1 > Len(s)
    THEN 0
    ELSE IF SubSeq(s, i, i + Len(sep) - 1) = sep
         THEN i
         ELSE IndexFrom(s, sep, i + 1)

Index(s, sep) == IndexFrom(s, sep, 1)

Contains(s, sub) == Index(s, sub) # 0

HasPrefix(s, p) == Len(s) >= Len(p) /\ SubSeq(s, 1, Len(p)) = p

HasSuffix(s, p) == Len(s) >= Len(p) /\ SubSeq(s, Len(s) - Len(p) + 1, Len(s)) = p

\* strings.Cut: slices s around the first instance of sep.
Cut(s, sep) ==
    LET i == Index(s, sep)
    IN  IF i = 0
        THEN [before |-> s, after |-> "", found |-> FALSE]
        ELSE [before |-> SubSeq(s, 1, i - 1),
              after  |-> SubSeq(s, i + Len(sep), Len(s)),
              found  |-> TRUE]

\* strings.ReplaceAll: every non-overlapping instance of old, left to right.
RECURSIVE ReplaceAll(_, _, _)
ReplaceAll(s, old, new) ==
    LET i == Index(s, old)
    IN  IF i = 0
        THEN s
        ELSE SubSeq(s, 1, i - 1) \o new
             \o ReplaceAll(SubSeq(s, i + Len(old), Len(s)), old, new)

(***************************************************************************)
(* bufio.Scanner with the default split function (ScanLines)               *)
(***************************************************************************)
\* dropCR: one trailing carriage return is removed from a line.
DropCR(s) == IF HasSuffix(s, "\r") THEN SubSeq(s, 1, Len(s) - 1) ELSE s

\* The pieces of data between newlines, as the scanner's buffer sees them.
RECURSIVE RawTokens(_)
RawTokens(data) ==
    IF data = ""
    THEN << >>
    ELSE LET i == Index(data, "\n")
         IN  IF i = 0
             THEN <<data>>
             ELSE <<SubSeq(data, 1, i - 1)>> \o RawTokens(SubSeq(data, i + 1, Len(data)))

\* scanner.Err(): bufio.ErrTooLong when a line does not fit the buffer.
ScanTooLong(data) ==
    LET toks == RawTokens(data)
    IN  \E n \in 1..Len(toks) : Len(toks[n]) >= MaxScanTokenSize

\* for scanner.Scan() { lines = append(lines, scanner.Text()) }
ScanLines(data) ==
    LET toks == RawTokens(data)
    IN  [n \in 1..Len(toks) |-> DropCR(toks[n])]

\* Does some scanned line equal / contain the given text.
HasLine(lines, text) == \E n \in 1..Len(lines) : lines[n] = text

(***************************************************************************)
(* Go values                                                               *)
(***************************************************************************)
Handles == {1, 2}

\* error values: nil, errors.New(text), the *exec.ExitError of a failed
\* command, and the scanner's bufio.ErrTooLong.
NilErr == [kind |-> "nil", text |-> ""]
errors_New(text) == [kind |-> "errorString", text |-> text]
ExitError == [kind |-> "exec.ExitError", text |-> "exit status 2"]
ErrTooLong == [kind |-> "bufio.ErrTooLong", text |-> "bufio.Scanner: token too long"]

\* map[string]string
EmptyMap == [x \in {} |-> ""]
MapPut(m, key, value) ==
    [x \in (DOMAIN m) \cup {key} |-> IF x = key THEN value ELSE m[x]]

\* A nil *THeader, and the result of newHeader() / newEntry().
NilHeader == [nil |-> TRUE]
newHeader == [Data |-> EmptyMap]
newEntry == [Data |-> EmptyMap]

\* A variant of THeader.addKey that looks for ": " first.
THeader_addKey_ColonFirst(h, s) ==
    LET c == Cut(s, " = ")
        d == Cut(s, ": ")
    IN  IF d.found
        THEN [h EXCEPT !.Data = MapPut(h.Data, d.before, d.after)]
        ELSE IF c.found
             THEN [h EXCEPT !.Data = MapPut(h.Data, c.before, c.after)]
             ELSE h

\* THeader.addKey: " = " first, then ": ".
THeader_addKey(h, s) ==
    LET c == Cut(s, " = ")
        d == Cut(s, ": ")
    IN  IF c.found
        THEN [h EXCEPT !.Data = MapPut(h.Data, c.before, c.after)]
        ELSE IF d.found
             THEN [h EXCEPT !.Data = MapPut(h.Data, d.before, d.after)]
             ELSE h

\* TEntry.addKey: " = " only.
TEntry_addKey(e, s) ==
    LET c == Cut(s, " = ")
    IN  IF c.found THEN [e EXCEPT !.Data = MapPut(e.Data, c.before, c.after)] ELSE e

\* The zero value &TFile{} that Open starts from.
TFile ==
    [File |-> "", Type |-> "", Listing |-> "", Header |-> NilHeader,
     Entries |-> << >>, Encrypted |-> FALSE, Password |-> "", ErrorState |-> ""]

\* TCursor: zero value, Start and Next.
TCursor == [Preamble |-> FALSE, Header |-> FALSE, Entries |-> FALSE]

TCursor_Start(c) == [Preamble |-> TRUE, Header |-> FALSE, Entries |-> FALSE]

\* A variant of Next that raises the flag of the next block and leaves the
\* flag of the block it left as it was.
TCursor_Next_KeepFlag(c) ==
    IF c.Preamble
    THEN [c EXCEPT !.Header = TRUE]
    ELSE IF c.Header
         THEN [c EXCEPT !.Entries = TRUE]
         ELSE c

TCursor_Next(c) ==
    IF c.Preamble
    THEN [Preamble |-> FALSE, Header |-> TRUE, Entries |-> FALSE]
    ELSE IF c.Header
         THEN [Preamble |-> FALSE, Header |-> FALSE, Entries |-> TRUE]
         ELSE c

(***************************************************************************)
(* The locals of a running getInfo / getListing, and what a call returned  *)
(***************************************************************************)
NoFrame == [lines |-> << >>, i |-> 0, cursor |-> TCursor, entry |-> newEntry]

NoRet == [op |-> "", args |-> << >>, err |-> NilErr, val |-> FALSE]

\* One run of the external tool: exec.Command(name, args...).CombinedOutput().
Invocation(name, args, res) ==
    [name |-> name, args |-> args, out |-> res.out, err |-> res.err]

(***************************************************************************)
(* getInfo, lines 179-237: the body of the loop for one line.  Each        *)
(* operator yields the handle, the locals, and whether getInfo returned    *)
(* (and with which error).                                                 *)
(***************************************************************************)
Continue(t, fr) == [t |-> t, fr |-> [fr EXCEPT !.i = fr.i + 1], returned |-> FALSE, err |-> NilErr]
Return(t, fr, err) == [t |-> t, fr |-> fr, returned |-> TRUE, err |-> err]

\* Variants of getInfo_Preamble with a slip: the sentinel leaves Encrypted
\* alone; an "ERROR:" line that is no sentinel is skipped.
getInfo_Preamble_NoFlag(t, fr, line) ==
    IF HasPrefix(line, "ERROR:")
    THEN IF Contains(line, "encrypted archive")
         THEN Return([t EXCEPT !.Type = "encrypted archive"], fr, NilErr)
         ELSE Return(t, fr, errors_New(line))
    ELSE IF line = "--"
         THEN Continue(t, [fr EXCEPT !.cursor = TCursor_Next(fr.cursor)])
         ELSE Continue(t, fr)

getInfo_Preamble_SkipError(t, fr, line) ==
    IF HasPrefix(line, "ERROR:") /\ Contains(line, "encrypted archive")
    THEN Return([t EXCEPT !.Type = "encrypted archive", !.Encrypted = TRUE], fr, NilErr)
    ELSE IF line = "--"
         THEN Continue(t, [fr EXCEPT !.cursor = TCursor_Next(fr.cursor)])
         ELSE Continue(t, fr)

\* ... and one that reports a fixed message instead of the line.
getInfo_Preamble_FixedText(t, fr, line) ==
    IF HasPrefix(line, "ERROR:")
    THEN IF Contains(line, "encrypted archive")
         THEN Return([t EXCEPT !.Type = "encrypted archive", !.Encrypted = TRUE], fr, NilErr)
         ELSE Return(t, fr, errors_New("not supported"))
    ELSE IF line = "--"
         THEN Continue(t, [fr EXCEPT !.cursor = TCursor_Next(fr.cursor)])
         ELSE Continue(t, fr)

getInfo_Preamble(t, fr, line) ==
    IF HasPrefix(line, "ERROR:")
    THEN IF Contains(line, "encrypted archive")
         THEN Return([t EXCEPT !.Type = "encrypted archive", !.Encrypted = TRUE], fr, NilErr)
         ELSE Return(t, fr, errors_New(line))
    ELSE IF line = "--"
         THEN Continue(t, [fr EXCEPT !.cursor = TCursor_Next(fr.cursor)])
         ELSE Continue(t, fr)

\* A variant of getInfo_Header that does not look at Type at the delimiter.
getInfo_Header_NoTypeCheck(t, fr, line) ==
    IF line = ""
    THEN Continue(t, fr)
    ELSE LET t1 == IF HasPrefix(line, "Type = ")
                   THEN [t EXCEPT !.Type = ReplaceAll(line, "Type = ", "")]
                   ELSE t
             t2 == IF HasPrefix(line, "Encrypted = ")
                   THEN [t1 EXCEPT !.Encrypted = HasSuffix(line, "+")]
                   ELSE t1
         IN  IF line = "----------"
             THEN Continue(t2, [fr EXCEPT !.cursor = TCursor_Next(fr.cursor)])
             ELSE Continue([t2 EXCEPT !.Header = THeader_addKey(t2.Header, line)], fr)

getInfo_Header(t, fr, line) ==
    IF line = ""
    THEN Continue(t, fr)
    ELSE LET t1 == IF HasPrefix(line, "Type = ")
                   THEN [t EXCEPT !.Type = ReplaceAll(line, "Type = ", "")]
                   ELSE t
             t2 == IF HasPrefix(line, "Encrypted = ")
                   THEN [t1 EXCEPT !.Encrypted = HasSuffix(line, "+")]
                   ELSE t1
         IN  IF line = "----------"
             THEN IF t2.Type = ""
                  THEN Return(t2, fr, errors_New("not supported? error: no Type found"))
                  ELSE Continue(t2, [fr EXCEPT !.cursor = TCursor_Next(fr.cursor)])
             ELSE Continue([t2 EXCEPT !.Header = THeader_addKey(t2.Header, line)], fr)

\* A variant of getInfo_Entries that goes on filling the Entry it appended.
getInfo_Entries_KeepEntry(t, fr, line) ==
    IF line # ""
    THEN LET t1 == IF HasPrefix(line, "Encrypted = ") /\ HasSuffix(line, "+")
                   THEN [t EXCEPT !.Encrypted = TRUE]
                   ELSE t
         IN  Continue(t1, [fr EXCEPT !.entry = TEntry_addKey(fr.entry, line)])
    ELSE Continue([t EXCEPT !.Entries = Append(t.Entries, fr.entry)], fr)

\* A variant of getInfo_Entries that takes the Encrypted flag from every
\* "Encrypted = " line of an entry, as the header does.
getInfo_Entries_ResetFlag(t, fr, line) ==
    IF line # ""
    THEN LET t1 == IF HasPrefix(line, "Encrypted = ")
                   THEN [t EXCEPT !.Encrypted = HasSuffix(line, "+")]
                   ELSE t
         IN  Continue(t1, [fr EXCEPT !.entry = TEntry_addKey(fr.entry, line)])
    ELSE Continue([t EXCEPT !.Entries = Append(t.Entries, fr.entry)],
                  [fr EXCEPT !.entry = newEntry])

\* A variant of getInfo_Entries that appends an Entry only if it holds a key.
getInfo_Entries_SkipEmpty(t, fr, line) ==
    IF line # ""
    THEN LET t1 == IF HasPrefix(line, "Encrypted = ") /\ HasSuffix(line, "+")
                   THEN [t EXCEPT !.Encrypted = TRUE]
                   ELSE t
         IN  Continue(t1, [fr EXCEPT !.entry = TEntry_addKey(fr.entry, line)])
    ELSE IF fr.entry = newEntry
         THEN Continue(t, fr)
         ELSE Continue([t EXCEPT !.Entries = Append(t.Entries, fr.entry)],
                       [fr EXCEPT !.entry = newEntry])

getInfo_Entries(t, fr, line) ==
    IF line # ""
    THEN LET t1 == IF HasPrefix(line, "Encrypted = ") /\ HasSuffix(line, "+")
                   THEN [t EXCEPT !.Encrypted = TRUE]
                   ELSE t
         IN  Continue(t1, [fr EXCEPT !.entry = TEntry_addKey(fr.entry, line)])
    ELSE Continue([t EXCEPT !.Entries = Append(t.Entries, fr.entry)],
                  [fr EXCEPT !.entry = newEntry])

getInfo_Line(t, fr, line) ==
    IF fr.cursor.Preamble
    THEN getInfo_Preamble(t, fr, line)
    ELSE IF fr.cursor.Header
         THEN getInfo_Header(t, fr, line)
         ELSE getInfo_Entries(t, fr, line)

(***************************************************************************)
(* getListing, lines 121-145: the body of the loop for one line.           *)
(***************************************************************************)
\* A variant that keeps the blank line that ends the header block out of the text.
getListing_Line_DropBlank(t, fr, line) ==
    IF fr.cursor.Preamble
    THEN IF HasPrefix(line, "ERROR:")
         THEN Return(t, fr, errors_New(line))
         ELSE IF line = "--"
              THEN Continue(t, [fr EXCEPT !.cursor = TCursor_Next(fr.cursor)])
              ELSE Continue(t, fr)
    ELSE IF fr.cursor.Header
         THEN IF line = ""
              THEN Continue(t, [fr EXCEPT !.cursor = TCursor_Next(fr.cursor)])
              ELSE Continue([t EXCEPT !.Listing = t.Listing \o line \o "\n"], fr)
         ELSE Continue([t EXCEPT !.Listing = t.Listing \o line \o "\n"], fr)

getListing_Line(t, fr, line) ==
    IF fr.cursor.Preamble
    THEN IF HasPrefix(line, "ERROR:")
         THEN Return(t, fr, errors_New(line))
         ELSE IF line = "--"
              THEN Continue(t, [fr EXCEPT !.cursor = TCursor_Next(fr.cursor)])
              ELSE Continue(t, fr)
    ELSE IF fr.cursor.Header
         THEN Continue([t EXCEPT !.Listing = t.Listing \o line \o "\n"],
                       IF line = ""
                       THEN [fr EXCEPT !.cursor = TCursor_Next(fr.cursor)]
                       ELSE fr)
         ELSE Continue([t EXCEPT !.Listing = t.Listing \o line \o "\n"], fr)

(***************************************************************************)
(* TestPassword, lines 271-279, and ExtractWithPassword, lines 306-311:    *)
(* what the loop over the scanned lines decides.                           *)
(***************************************************************************)
\* Variants that take any line containing the confirmation for it.
RECURSIVE TestPassword_Loop_Substring(_)
TestPassword_Loop_Substring(lines) ==
    IF lines = << >>
    THEN FALSE
    ELSE IF Contains(Head(lines), "Everything is Ok")
         THEN TRUE
         ELSE IF Contains(Head(lines), "Wrong password?")
              THEN FALSE
              ELSE TestPassword_Loop_Substring(Tail(lines))

ExtractWithPassword_Loop_Substring(lines, data) ==
    IF \E n \in 1..Len(lines) : Contains(lines[n], "Everything is Ok")
    THEN NilErr
    ELSE errors_New(data)

RECURSIVE TestPassword_Loop(_)
TestPassword_Loop(lines) ==
    IF lines = << >>
    THEN FALSE
    ELSE IF Head(lines) = "Everything is Ok"
         THEN TRUE
         ELSE IF Contains(Head(lines), "Wrong password?")
              THEN FALSE
              ELSE TestPassword_Loop(Tail(lines))

ExtractWithPassword_Loop(lines, data) ==
    IF HasLine(lines, "Everything is Ok") THEN NilErr ELSE errors_New(data)

(***************************************************************************)
(* The outputs the tool is given to produce                                *)
(***************************************************************************)
SeqsUpTo(S, n) == UNION {[1..m -> S] : m \in 0..n}

\* Every line followed by the end-of-line text eol.
RECURSIVE JoinLines(_, _)
JoinLines(ls, eol) ==
    IF ls = << >> THEN "" ELSE Head(ls) \o eol \o JoinLines(Tail(ls), eol)

Unlines(ls) == JoinLines(ls, "\n")

RECURSIVE Repeat(_, _)
Repeat(s, n) == IF n = 0 THEN "" ELSE s \o Repeat(s, n - 1)

RECURSIVE Flatten(_)
Flatten(ss) == IF ss = << >> THEN << >> ELSE Head(ss) \o Flatten(Tail(ss))

\* An output with a line that does not fit the scanner's buffer.
TooLongOutput == "--\n" \o Repeat("x", MaxScanTokenSize) \o "\nEverything is Ok\n"

\* Both results of running the tool with a given output.
Results(outs) == {[out |-> o, err |-> e] : o \in outs, e \in {NilErr, ExitError}}

\* Detailed listing (l -slt): free-form outputs, line by line.
DetLines ==
    {"--", "----------", "", "ERROR: x", "ERROR: encrypted archive",
     "Type = Zip", "Encrypted = +", "Path = a"}

FreeListings == {Unlines(ls) : ls \in SeqsUpTo(DetLines, MaxLines)}

\* Detailed listing: the layout the tool prints for an archive it can read.
Banner == <<"Listing archive: a.7z", "">>

HeaderBlocks ==
    {<<"Type = Zip">>,
     <<"Path = a.7z", "Type = 7z", "Encrypted = +">>,
     <<"Type = Zip", "Encrypted = -", "", "Type = Rar">>,
     <<"Encrypted = +", "Type = aType = b", "Comment: c = d", "Method: LZMA", "Encrypted = -">>}

StanzaPool ==
    {<<"Path = a">>,
     <<"Path = b", "Encrypted = +">>,
     <<"Path = c", "Size = 1", "Encrypted = -", "Path = d", "Note: n">>}

Stanzas == SeqsUpTo(StanzaPool, MaxStanzas)

\* The lines of a listing with header block hdr and entry stanzas sts, each
\* stanza followed by a blank line.
ListingLines(hdr, sts) ==
    Banner \o <<"--">> \o hdr \o <<"", "----------">>
    \o Flatten([n \in 1..Len(sts) |-> sts[n] \o <<"">>])

WellFormedListings ==
    {JoinLines(ListingLines(hdr, sts), eol) :
        hdr \in HeaderBlocks, sts \in Stanzas, eol \in {"\n", "\r\n"}}

\* Listings that stop early, or hold a line the scanner cannot take.
OddListings ==
    {"--\nType = Zip\n----------\nPath = a\n\nPath = b",
     "--\nType = Zip\n----------\n\n\nPath = a\n",
     "--\nType = \n----------\nPath = a\n\n",
     "ERROR: x\n--\nType = Zip\n----------\nPath = a\n\n",
     "--\nType = Zip\nno separator\na = b = c\na: b\n----------\nno separator\nk: v = w: x\na = b = c\na = \n\n",
     "ERROR: x\r\n",
     "ERROR: encrypted archive\n" \o TooLongOutput,
     TooLongOutput}

DetOutputs == FreeListings \cup WellFormedListings \cup OddListings

\* Simple listing (l), for runs that study the detailed pass.
FewListOutputs == {"", "banner\n--\nDate Name\n\nrow\n", "ERROR: l\n--\n", TooLongOutput}

\* The same without the line the scanner cannot take.
PlainListOutputs == FewListOutputs \ {TooLongOutput}

\* A few detailed listings, for runs that study the later operations.
FewDetOutputs ==
    {"",
     "ERROR: a.7z: Can not open encrypted archive. Wrong password?\n",
     "ERROR: x\n",
     "--\nType = 7z\nEncrypted = +\n\n----------\nPath = a\n\n",
     "--\nType = Zip\n\n----------\nPath = a\nEncrypted = -\n\n"}

\* Test (t) and extract (x) outputs.
OpOutputs ==
    {"",
     "Everything is Ok\n",
     "Everything is Ok",
     "Testing archive: a.7z\r\n\r\nEverything is Ok\r\n",
     "Everything is Ok \n",
     "ERROR: Wrong password? a\nEverything is Ok\n",
     "Everything is Ok\nERROR: Wrong password? a\n",
     "ERROR: Wrong password? a\n",
     "ERROR: CRC Failed\n",
     TooLongOutput}

Files == {"a.7z"}
Passwords == {"", "pw"}
Folders == {"out"}

(***************************************************************************)
(* State                                                                   *)
(***************************************************************************)
Init ==
    /\ BINARY_NAME = "7zz"
    /\ f = [k \in Handles |-> TFile]
    /\ pc = [k \in Handles |-> "new"]
    /\ frame = [k \in Handles |-> NoFrame]
    /\ calls = [k \in Handles |-> << >>]
    /\ ret = [k \in Handles |-> NoRet]
    /\ exited = FALSE

\* A call on handle k returns: its locals are gone, its result is recorded.
Returns(k, t, op, args, err, val) ==
    /\ f' = [f EXCEPT ![k] = t]
    /\ pc' = [pc EXCEPT ![k] = "ready"]
    /\ frame' = [frame EXCEPT ![k] = NoFrame]
    /\ ret' = [ret EXCEPT ![k] = [op |-> op, args |-> args, err |-> err, val |-> val]]

\* Open(file), lines 63-67, into getInfo up to the start of its loop,
\* lines 149-177.  res is what the tool returns to "l -slt -p file".
Open(k, outs) ==
    /\ ~exited
    /\ pc[k] = "new"
    /\ \E file \in Files, res \in Results(outs) :
        /\ calls' = [calls EXCEPT ![k] =
                        <<Invocation(BINARY_NAME, <<"l", "-slt", "-p", file>>, res)>>]
        /\ LET t0 == [TFile EXCEPT !.File = file]
           IN  IF res.err # NilErr
               THEN Returns(k, [t0 EXCEPT !.ErrorState = res.out], "Open", <<file>>, res.err, FALSE)
               ELSE IF ScanTooLong(res.out)
                    THEN Returns(k, t0, "Open", <<file>>, ErrTooLong, FALSE)
                    ELSE /\ f' = [f EXCEPT ![k] = [t0 EXCEPT !.Header = newHeader]]
                         /\ frame' = [frame EXCEPT ![k] =
                                        [lines |-> ScanLines(res.out), i |-> 1,
                                         cursor |-> TCursor_Start(TCursor),
                                         entry |-> newEntry]]
                         /\ pc' = [pc EXCEPT ![k] = "getInfo"]
                         /\ ret' = ret
    /\ UNCHANGED <<BINARY_NAME, exited>>

\* A variant whose Entry under construction is one variable of the package,
\* kept here in the locals of handle 1, and not a local of each call.
getInfo_Step_SharedEntry(k) ==
    /\ ~exited
    /\ pc[k] = "getInfo"
    /\ frame[k].i <= Len(frame[k].lines)
    /\ LET r == getInfo_Line(f[k], [frame[k] EXCEPT !.entry = frame[1].entry],
                             frame[k].lines[frame[k].i])
       IN  IF r.returned
           THEN Returns(k, r.t, "Open", <<f[k].File>>, r.err, FALSE)
           ELSE /\ f' = [f EXCEPT ![k] = r.t]
                /\ frame' = [[frame EXCEPT ![k] = r.fr] EXCEPT ![1].entry = r.fr.entry]
                /\ UNCHANGED <<pc, ret>>
    /\ UNCHANGED <<BINARY_NAME, calls, exited>>

\* One iteration of the loop of getInfo, lines 179-237.
getInfo_Step(k) ==
    /\ ~exited
    /\ pc[k] = "getInfo"
    /\ frame[k].i <= Len(frame[k].lines)
    /\ LET r == getInfo_Line(f[k], frame[k], frame[k].lines[frame[k].i])
       IN  IF r.returned
           THEN Returns(k, r.t, "Open", <<f[k].File>>, r.err, FALSE)
           ELSE /\ f' = [f EXCEPT ![k] = r.t]
                /\ frame' = [frame EXCEPT ![k] = r.fr]
                /\ UNCHANGED <<pc, ret>>
    /\ UNCHANGED <<BINARY_NAME, calls, exited>>

\* The loop of getInfo is over: err = f.getListing(), lines 239 and 95-119.
\* res is what the tool returns to "l -p file".
getInfo_End(k, outs) ==
    /\ ~exited
    /\ pc[k] = "getInfo"
    /\ frame[k].i > Len(frame[k].lines)
    /\ \E res \in Results(outs) :
        /\ calls' = [calls EXCEPT ![k] =
                        Append(@, Invocation(BINARY_NAME, <<"l", "-p", f[k].File>>, res))]
        /\ IF res.err # NilErr
           THEN Returns(k, [f[k] EXCEPT !.ErrorState = res.out],
                        "Open", <<f[k].File>>, res.err, FALSE)
           ELSE IF ScanTooLong(res.out)
                THEN Returns(k, f[k], "Open", <<f[k].File>>, ErrTooLong, FALSE)
                ELSE /\ frame' = [frame EXCEPT ![k] =
                                    [lines |-> ScanLines(res.out), i |-> 1,
                                     cursor |-> TCursor_Start(TCursor), entry |-> newEntry]]
                     /\ pc' = [pc EXCEPT ![k] = "getListing"]
                     /\ UNCHANGED <<f, ret>>
    /\ UNCHANGED <<BINARY_NAME, exited>>

\* A variant that builds the listing text in handle 1, as if the handle were
\* one variable of the package.
getListing_Step_OneHandle(k) ==
    /\ ~exited
    /\ pc[k] = "getListing"
    /\ frame[k].i <= Len(frame[k].lines)
    /\ LET r == getListing_Line(f[1], frame[k], frame[k].lines[frame[k].i])
       IN  IF r.returned
           THEN Returns(k, f[k], "Open", <<f[k].File>>, r.err, FALSE)
           ELSE /\ f' = [f EXCEPT ![1] = r.t]
                /\ frame' = [frame EXCEPT ![k] = r.fr]
                /\ UNCHANGED <<pc, ret>>
    /\ UNCHANGED <<BINARY_NAME, calls, exited>>

\* One iteration of the loop of getListing, lines 121-145.
getListing_Step(k) ==
    /\ ~exited
    /\ pc[k] = "getListing"
    /\ frame[k].i <= Len(frame[k].lines)
    /\ LET r == getListing_Line(f[k], frame[k], frame[k].lines[frame[k].i])
       IN  IF r.returned
           THEN Returns(k, r.t, "Open", <<f[k].File>>, r.err, FALSE)
           ELSE /\ f' = [f EXCEPT ![k] = r.t]
                /\ frame' = [frame EXCEPT ![k] = r.fr]
                /\ UNCHANGED <<pc, ret>>
    /\ UNCHANGED <<BINARY_NAME, calls, exited>>

\* getListing returns nil, line 146, and so do getInfo and Open.
getListing_End(k) ==
    /\ ~exited
    /\ pc[k] = "getListing"
    /\ frame[k].i > Len(frame[k].lines)
    /\ Returns(k, f[k], "Open", <<f[k].File>>, NilErr, FALSE)
    /\ UNCHANGED <<BINARY_NAME, calls, exited>>

\* A variant of TestPassword that runs the test whatever Type and Encrypted are.
TestPassword_NoGuard(k, outs) ==
    /\ ~exited
    /\ pc[k] = "ready"
    /\ \E password \in Passwords, res \in Results(outs) :
        /\ calls' = [calls EXCEPT ![k] =
                        <<Invocation(BINARY_NAME,
                                     <<"t", "-bd", "-p" \o password, f[k].File>>, res)>>]
        /\ IF res.err # NilErr
           THEN Returns(k, [f[k] EXCEPT !.ErrorState = res.out],
                        "TestPassword", <<password>>, NilErr, FALSE)
           ELSE IF ScanTooLong(res.out)
                THEN Returns(k, f[k], "TestPassword", <<password>>, NilErr, FALSE)
                ELSE Returns(k, f[k], "TestPassword", <<password>>, NilErr,
                             TestPassword_Loop(ScanLines(res.out)))
    /\ UNCHANGED <<BINARY_NAME, exited>>

\* TestPassword(password), lines 245-280.  res is what the tool returns to
\* "t -bd -p<password> file", if it is run.
TestPassword(k, outs) ==
    /\ ~exited
    /\ pc[k] = "ready"
    /\ \E password \in Passwords :
        IF f[k].Type = "" \/ ~f[k].Encrypted
        THEN /\ calls' = [calls EXCEPT ![k] = << >>]
             /\ Returns(k, f[k], "TestPassword", <<password>>, NilErr, FALSE)
        ELSE \E res \in Results(outs) :
             /\ calls' = [calls EXCEPT ![k] =
                            <<Invocation(BINARY_NAME,
                                         <<"t", "-bd", "-p" \o password, f[k].File>>, res)>>]
             /\ IF res.err # NilErr
                THEN Returns(k, [f[k] EXCEPT !.ErrorState = res.out],
                             "TestPassword", <<password>>, NilErr, FALSE)
                ELSE IF ScanTooLong(res.out)
                     THEN Returns(k, f[k], "TestPassword", <<password>>, NilErr, FALSE)
                     ELSE Returns(k, f[k], "TestPassword", <<password>>, NilErr,
                                  TestPassword_Loop(ScanLines(res.out)))
    /\ UNCHANGED <<BINARY_NAME, exited>>

\* The body of ExtractWithPassword(folder, password), lines 288-312.  res is
\* what the tool returns to "x -aoa -bd -p<password> -o<folder> file"; its
\* err is dropped.  log.Fatal ends the process.
Extract(k, op, args, folder, password, res) ==
    /\ calls' = [calls EXCEPT ![k] =
                    <<Invocation(BINARY_NAME,
                                 <<"x", "-aoa", "-bd", "-p" \o password, "-o" \o folder,
                                   f[k].File>>, res)>>]
    /\ IF ScanTooLong(res.out)
       THEN /\ exited' = TRUE
            /\ ret' = [ret EXCEPT ![k] = NoRet]
            /\ UNCHANGED <<f, pc, frame>>
       ELSE /\ Returns(k, f[k], op, args,
                       ExtractWithPassword_Loop(ScanLines(res.out), res.out), FALSE)
            /\ exited' = exited
    /\ UNCHANGED BINARY_NAME

ExtractWithPassword(k, outs) ==
    /\ ~exited
    /\ pc[k] = "ready"
    /\ \E folder \in Folders, password \in Passwords, res \in Results(outs) :
          Extract(k, "ExtractWithPassword", <<folder, password>>, folder, password, res)

\* ExtractTo(folder), lines 283-285: ExtractWithPassword(folder, "").
ExtractTo(k, outs) ==
    /\ ~exited
    /\ pc[k] = "ready"
    /\ \E folder \in Folders, res \in Results(outs) :
          Extract(k, "ExtractTo", <<folder>>, folder, "", res)

(***************************************************************************)
(* Specifications                                                          *)
(***************************************************************************)
\* Open on one handle, over every detailed listing.
Next ==
    \E k \in {1} :
        \/ Open(k, DetOutputs)
        \/ getInfo_Step(k)
        \/ getInfo_End(k, FewListOutputs)
        \/ getListing_Step(k)
        \/ getListing_End(k)

Spec == Init /\ [][Next]_vars

\* Open, then any password tests and extractions, on one handle.
NextOps ==
    \E k \in {1} :
        \/ Open(k, FewDetOutputs)
        \/ getInfo_Step(k)
        \/ getInfo_End(k, PlainListOutputs)
        \/ getListing_Step(k)
        \/ getListing_End(k)
        \/ TestPassword(k, OpOutputs)
        \/ ExtractTo(k, OpOutputs)
        \/ ExtractWithPassword(k, OpOutputs)

SpecOps == Init /\ [][NextOps]_vars

(***************************************************************************)
(* Vocabulary of the properties                                            *)
(***************************************************************************)
\* Open has returned on handle k, and nothing was called on it since.
OpenReturned(k) == pc[k] = "ready" /\ ret[k].op = "Open"

\* The detailed-listing run of Open exited with status zero and the scanner
\* took every line of its output.
DetailedScanned(k) ==
    /\ Len(calls[k]) >= 1
    /\ calls[k][1].args = <<"l", "-slt", "-p", f[k].File>>
    /\ calls[k][1].err = NilErr
    /\ ~ScanTooLong(calls[k][1].out)

DetailedLines(k) == ScanLines(calls[k][1].out)

\* The lines before the first line equal to "--" (all of them if there is none).
RECURSIVE PreambleOf(_)
PreambleOf(lines) ==
    IF lines = << >> \/ Head(lines) = "--"
    THEN << >>
    ELSE <<Head(lines)>> \o PreambleOf(Tail(lines))

IsErrorLine(line) == HasPrefix(line, "ERROR:")
IsSentinelLine(line) == IsErrorLine(line) /\ Contains(line, "encrypted archive")

\* The positions of the "ERROR:" lines of a preamble.
ErrorLines(pre) == {n \in 1..Len(pre) : IsErrorLine(pre[n])}

FirstOf(S) == CHOOSE n \in S : \A m \in S : n <= m

\* What Open leaves behind in the whole-archive-encrypted case.
SentinelHandle(k) ==
    /\ ret[k].err = NilErr
    /\ f[k].Type = "encrypted archive"
    /\ f[k].Encrypted = TRUE
    /\ f[k].Header = [Data |-> EmptyMap]
    /\ f[k].Entries = << >>

(***************************************************************************)
(* C1 as stated: whenever the preamble of a detailed listing (exit status  *)
(* zero) contains an "ERROR:" line with the text "encrypted archive", Open *)
(* returns no error and leaves Type = "encrypted archive", Encrypted =     *)
(* true, an empty Header and no Entries.                                   *)
(***************************************************************************)
C1_AnySentinelLine ==
    \A k \in Handles :
        (/\ OpenReturned(k)
         /\ DetailedScanned(k)
         /\ \E n \in 1..Len(PreambleOf(DetailedLines(k))) :
                IsSentinelLine(PreambleOf(DetailedLines(k))[n]))
        => SentinelHandle(k)

(***************************************************************************)
(* C1 amended: whenever the FIRST "ERROR:" line of the preamble of a       *)
(* detailed listing (exit status zero, every line within the scanner's     *)
(* limit) contains "encrypted archive", Open returns no error and leaves   *)
(* Type = "encrypted archive", Encrypted = true, an empty Header and no    *)
(* Entries.                                                                *)
(***************************************************************************)
C1_FirstErrorIsSentinel ==
    \A k \in Handles :
        (/\ OpenReturned(k)
         /\ DetailedScanned(k)
         /\ LET pre == PreambleOf(DetailedLines(k))
            IN  ErrorLines(pre) # {} /\ IsSentinelLine(pre[FirstOf(ErrorLines(pre))]))
        => SentinelHandle(k)

\* Open has returned the sentinel for a listing whose sentinel line comes
\* after other preamble lines.
C1_Witness ==
    \E k \in Handles :
        /\ OpenReturned(k)
        /\ DetailedScanned(k)
        /\ LET pre == PreambleOf(DetailedLines(k))
           IN  /\ ErrorLines(pre) # {}
               /\ FirstOf(ErrorLines(pre)) > 1
               /\ IsSentinelLine(pre[FirstOf(ErrorLines(pre))])
        /\ SentinelHandle(k)

(***************************************************************************)
(* C2: whenever Open returns without error and the handle's Encrypted flag *)
(* is false, the handle's Type is not empty.                               *)
(***************************************************************************)
C2_TypeKnown ==
    \A k \in Handles :
        (OpenReturned(k) /\ ret[k].err = NilErr /\ ~f[k].Encrypted)
        => f[k].Type # ""

(***************************************************************************)
(* C7 as stated: whenever the preamble of a detailed listing (exit status  *)
(* zero) contains an "ERROR:" line without the text "encrypted archive",   *)
(* Open fails and the text of its error is exactly that line.              *)
(***************************************************************************)
C7_AnyErrorLine ==
    \A k \in Handles :
        (OpenReturned(k) /\ DetailedScanned(k))
        => \A n \in ErrorLines(PreambleOf(DetailedLines(k))) :
              ~IsSentinelLine(PreambleOf(DetailedLines(k))[n])
              => ret[k].err = errors_New(PreambleOf(DetailedLines(k))[n])

(***************************************************************************)
(* C7 amended: whenever the FIRST "ERROR:" line of the preamble of a       *)
(* detailed listing (exit status zero, every line within the scanner's     *)
(* limit) does not contain "encrypted archive", Open fails and the text of *)
(* its error is exactly that line.                                         *)
(***************************************************************************)
C7_FirstErrorLine ==
    \A k \in Handles :
        (OpenReturned(k) /\ DetailedScanned(k))
        => LET pre == PreambleOf(DetailedLines(k))
           IN  (ErrorLines(pre) # {} /\ ~IsSentinelLine(pre[FirstOf(ErrorLines(pre))]))
               => ret[k].err = errors_New(pre[FirstOf(ErrorLines(pre))])

\* Open has failed with the first "ERROR:" line, which a sentinel line follows.
C7_Witness ==
    \E k \in Handles :
        /\ OpenReturned(k)
        /\ DetailedScanned(k)
        /\ LET pre == PreambleOf(DetailedLines(k))
           IN  /\ Cardinality(ErrorLines(pre)) >= 2
               /\ ~IsSentinelLine(pre[FirstOf(ErrorLines(pre))])
               /\ \E n \in ErrorLines(pre) : IsSentinelLine(pre[n])
               /\ ret[k].err = errors_New(pre[FirstOf(ErrorLines(pre))])
               /\ ret[k].err.text = "ERROR: x"

(***************************************************************************)
(* The layout of a detailed listing, read off its lines                    *)
(***************************************************************************)
\* The first position at or after from where lines holds text; 0 if none.
RECURSIVE LinePos(_, _, _)
LinePos(lines, text, from) ==
    IF from > Len(lines)
    THEN 0
    ELSE IF lines[from] = text THEN from ELSE LinePos(lines, text, from + 1)

PreambleEnd(lines) == LinePos(lines, "--", 1)

HeaderEnd(lines) ==
    IF PreambleEnd(lines) = 0 THEN 0 ELSE LinePos(lines, "----------", PreambleEnd(lines) + 1)

HeaderLinesOf(lines) == SubSeq(lines, PreambleEnd(lines) + 1, HeaderEnd(lines) - 1)

EntryLinesOf(lines) == SubSeq(lines, HeaderEnd(lines) + 1, Len(lines))

Blanks(rest) == {n \in 1..Len(rest) : rest[n] = ""}

\* rest is a run of stanzas: non-blank lines, each run closed by one blank line.
IsStanzas(rest) ==
    \/ rest = << >>
    \/ /\ rest[1] # ""
       /\ rest[Len(rest)] = ""
       /\ \A n \in 1..(Len(rest) - 1) : ~(rest[n] = "" /\ rest[n + 1] = "")

\* The position of the i-th blank line of rest (0 for i = 0).
NthBlank(rest, i) ==
    IF i = 0
    THEN 0
    ELSE CHOOSE n \in Blanks(rest) : Cardinality({m \in Blanks(rest) : m <= n}) = i

StanzaOf(rest, i) == SubSeq(rest, NthBlank(rest, i - 1) + 1, NthBlank(rest, i) - 1)

\* A preamble ended by "--", header lines with a "Type = " line among them,
\* the "----------" delimiter, then stanzas.
IsListingLayout(lines) ==
    /\ PreambleEnd(lines) # 0
    /\ HeaderEnd(lines) # 0
    /\ \E n \in 1..Len(HeaderLinesOf(lines)) : HasPrefix(HeaderLinesOf(lines)[n], "Type = ")
    /\ IsStanzas(EntryLinesOf(lines))

\* The key/value mapping of some lines: a line is split at its first " = ",
\* or, in a header and failing that, at its first ": "; a later line wins.
SeparatorOf(line, header) ==
    IF Index(line, " = ") # 0
    THEN " = "
    ELSE IF header /\ Index(line, ": ") # 0 THEN ": " ELSE ""

KeyOf(line, header) == SubSeq(line, 1, Index(line, SeparatorOf(line, header)) - 1)

ValueOf(line, header) ==
    SubSeq(line,
           Index(line, SeparatorOf(line, header)) + Len(SeparatorOf(line, header)),
           Len(line))

LastOf(S) == CHOOSE n \in S : \A m \in S : m <= n

MappingOf(lines, header) ==
    LET kv == {n \in 1..Len(lines) : SeparatorOf(lines[n], header) # ""}
    IN  [key \in {KeyOf(lines[n], header) : n \in kv} |->
            ValueOf(lines[LastOf({n \in kv : KeyOf(lines[n], header) = key})], header)]

\* The handle holds the listing's header mapping and one Entry per stanza.
HoldsListing(k, lines) ==
    /\ f[k].Header = [Data |-> MappingOf(HeaderLinesOf(lines), TRUE)]
    /\ Len(f[k].Entries) = Cardinality(Blanks(EntryLinesOf(lines)))
    /\ \A i \in 1..Len(f[k].Entries) :
          f[k].Entries[i] = [Data |-> MappingOf(StanzaOf(EntryLinesOf(lines), i), FALSE)]

(***************************************************************************)
(* C8 as stated: for a detailed listing made of a preamble ended by "--",  *)
(* header lines including a "Type = " line, the "----------" delimiter and *)
(* n stanzas each closed by a blank line, the handle after Open has the    *)
(* header lines' key/value mapping as Header and n Entries, the i-th being *)
(* the key/value mapping of the i-th stanza.                               *)
(***************************************************************************)
C8_AnyListing ==
    \A k \in Handles :
        (/\ OpenReturned(k)
         /\ Len(calls[k]) >= 1
         /\ calls[k][1].err = NilErr
         /\ IsListingLayout(DetailedLines(k)))
        => HoldsListing(k, DetailedLines(k))

(***************************************************************************)
(* C8 amended: the same, for a listing (exit status zero, every line       *)
(* within the scanner's limit) whose preamble has no "ERROR:" line and     *)
(* whose header lines leave a non-empty Type.                              *)
(***************************************************************************)
C8_ReadableListing ==
    \A k \in Handles :
        (/\ OpenReturned(k)
         /\ DetailedScanned(k)
         /\ IsListingLayout(DetailedLines(k))
         /\ ErrorLines(PreambleOf(DetailedLines(k))) = {}
         /\ f[k].Type # "")
        => HoldsListing(k, DetailedLines(k))

\* Open has read a listing with two stanzas of different keys, and a header
\* with a repeated key and a ": " line.
C8_Witness ==
    \E k \in Handles :
        /\ OpenReturned(k)
        /\ DetailedScanned(k)
        /\ IsListingLayout(DetailedLines(k))
        /\ ErrorLines(PreambleOf(DetailedLines(k))) = {}
        /\ HoldsListing(k, DetailedLines(k))
        /\ Len(f[k].Entries) = 2
        /\ f[k].Entries[1] # f[k].Entries[2]
        /\ f[k].Entries[1].Data # EmptyMap
        /\ {"Encrypted", "Method"} \subseteq DOMAIN f[k].Header.Data
        /\ f[k].Header.Data["Encrypted"] = "-"

(***************************************************************************)
(* C9: when getInfo, in its Header phase, reaches the line "----------"    *)
(* with Type still empty, Open fails with the format error "no Type        *)
(* found", the handle has no Entries, and the simple listing is never run. *)
(***************************************************************************)
NoTypeError == errors_New("not supported? error: no Type found")

\* getInfo is about to process the header delimiter with Type empty.
AtDelimiterWithoutType(k) ==
    /\ pc[k] = "getInfo"
    /\ frame[k].i <= Len(frame[k].lines)
    /\ frame[k].cursor.Header
    /\ frame[k].lines[frame[k].i] = "----------"
    /\ f[k].Type = ""

FailedForNoType(k) ==
    /\ OpenReturned(k)
    /\ ret[k].err = NoTypeError
    /\ f[k].Entries = << >>
    /\ f[k].Listing = ""
    /\ Len(calls[k]) = 1

\* C9: the step taken at the delimiter with Type empty ends Open with the
\* format error, no Entries and one tool run; so does every Open whose
\* listing reaches the delimiter and leaves Type empty.
C9_NoTypeAtDelimiter ==
    /\ [][\A k \in Handles : AtDelimiterWithoutType(k) => FailedForNoType(k)']_vars
    /\ [](\A k \in Handles :
            (/\ OpenReturned(k)
             /\ DetailedScanned(k)
             /\ ErrorLines(PreambleOf(DetailedLines(k))) = {}
             /\ HeaderEnd(DetailedLines(k)) # 0
             /\ f[k].Type = "")
            => FailedForNoType(k))

\* Open has failed for want of a Type on a listing that has entry lines
\* after the delimiter and a "Type = " line with nothing after it.
C9_Witness ==
    \E k \in Handles :
        /\ FailedForNoType(k)
        /\ DetailedScanned(k)
        /\ HeaderEnd(DetailedLines(k)) # 0
        /\ EntryLinesOf(DetailedLines(k)) # << >>
        /\ "Type = " \in {HeaderLinesOf(DetailedLines(k))[n] :
                             n \in 1..Len(HeaderLinesOf(DetailedLines(k)))}

(***************************************************************************)
(* C10: in Open the simple listing is run at most once, and only after the *)
(* detailed listing exited with status zero and all of its lines were      *)
(* parsed without a failure and without the encrypted-archive sentinel;    *)
(* when the detailed pass fails or returns the sentinel there is no second *)
(* run and Listing stays empty; a failure of the simple-listing pass is    *)
(* what Open returns.                                                      *)
(***************************************************************************)
IsDetailedRun(c, file) == c.args = <<"l", "-slt", "-p", file>>
IsSimpleRun(c, file) == c.args = <<"l", "-p", file>>

\* Open is over on k, or still running.
InOpen(k) == pc[k] \in {"getInfo", "getListing"} \/ OpenReturned(k)

\* The error the simple-listing pass ends with, from its output alone.
SimplePassError(c) ==
    IF c.err # NilErr
    THEN c.err
    ELSE IF ScanTooLong(c.out)
         THEN ErrTooLong
         ELSE LET pre == PreambleOf(ScanLines(c.out))
              IN  IF ErrorLines(pre) = {}
                  THEN NilErr
                  ELSE errors_New(pre[FirstOf(ErrorLines(pre))])

C10_RunsInOrder ==
    \A k \in Handles :
        InOpen(k) =>
            /\ Len(calls[k]) \in {1, 2}
            /\ IsDetailedRun(calls[k][1], f[k].File)
            /\ Len(calls[k]) = 2 =>
                  /\ IsSimpleRun(calls[k][2], f[k].File)
                  /\ DetailedScanned(k)
                  /\ ErrorLines(PreambleOf(DetailedLines(k))) = {}
                  /\ ret[k].err # NoTypeError
                  /\ OpenReturned(k) => ret[k].err = SimplePassError(calls[k][2])
            /\ Len(calls[k]) = 1 => f[k].Listing = ""

C10_SecondRunAfterParse ==
    \A k \in Handles :
        Len(calls'[k]) > Len(calls[k]) /\ Len(calls[k]) >= 1
        => /\ Len(calls[k]) = 1
           /\ pc[k] = "getInfo"
           /\ frame[k].lines = DetailedLines(k)
           /\ frame[k].i = Len(frame[k].lines) + 1
           /\ Len(calls'[k]) = 2

C10_FailedPassEndsOpen ==
    \A k \in Handles :
        (pc[k] \in {"new", "getInfo"} /\ pc'[k] = "ready" /\ Len(calls[k]) <= 1
         /\ (pc[k] = "getInfo" => frame[k].i <= Len(frame[k].lines)))
        => Len(calls'[k]) = 1 /\ f'[k].Listing = ""

\* C10: the runs of Open are in order, the second run is made only when
\* the loop of getInfo is over, and a detailed pass that returns early
\* leaves one run and an empty Listing.
C10_ListingAfterInfo ==
    /\ []C10_RunsInOrder
    /\ [][C10_SecondRunAfterParse]_vars
    /\ [][C10_FailedPassEndsOpen]_vars

\* Open has returned the error of a simple-listing pass that found an
\* "ERROR:" line, after a detailed pass that read entries.
C10_Witness ==
    \E k \in Handles :
        /\ OpenReturned(k)
        /\ Len(calls[k]) = 2
        /\ calls[k][2].err = NilErr
        /\ ret[k].err = errors_New("ERROR: l")
        /\ Len(f[k].Entries) >= 1

(***************************************************************************)
(* The later operations: vocabulary                                        *)
(***************************************************************************)
IsTestRun(c, file) ==
    /\ Len(c.args) = 4
    /\ c.args[1] = "t" /\ c.args[2] = "-bd" /\ HasPrefix(c.args[3], "-p") /\ c.args[4] = file

IsExtractRun(c, file) ==
    /\ Len(c.args) = 6
    /\ c.args[1] = "x" /\ c.args[2] = "-aoa" /\ c.args[3] = "-bd"
    /\ HasPrefix(c.args[4], "-p") /\ HasPrefix(c.args[5], "-o") /\ c.args[6] = file

\* data has a line equal to text: text stands at the start of data or after
\* a newline, and is followed by the end of data or by an end of line, with
\* or without a carriage return.
OutputHasLine(data, text) ==
    \E a \in 1..(Len(data) - Len(text) + 1) :
        /\ SubSeq(data, a, a + Len(text) - 1) = text
        /\ a = 1 \/ SubSeq(data, a - 1, a - 1) = "\n"
        /\ LET rest == SubSeq(data, a + Len(text), Len(data))
           IN  rest \in {"", "\r"} \/ HasPrefix(rest, "\n") \/ HasPrefix(rest, "\r\n")

\* data has a line that contains text (text holds no newline).
OutputHasLineWith(data, text) == Contains(data, text)

TestReturned(k) == pc[k] = "ready" /\ ret[k].op = "TestPassword"

ExtractReturned(k) == pc[k] = "ready" /\ ret[k].op \in {"ExtractTo", "ExtractWithPassword"}

(***************************************************************************)
(* C3: TestPassword returns true only if, when it is called, Type is not   *)
(* empty and Encrypted is true, and the test run exits with status zero    *)
(* and prints a line equal to "Everything is Ok"; otherwise it returns     *)
(* false; it never surfaces an error.                                      *)
(***************************************************************************)
C3_TrueStep ==
    \A k \in Handles :
        (pc[k] = "ready" /\ TestReturned(k)' /\ ret'[k].val)
        => /\ f[k].Type # ""
           /\ f[k].Encrypted
           /\ Len(calls'[k]) = 1
           /\ IsTestRun(calls'[k][1], f[k].File)
           /\ calls'[k][1].args[3] = "-p" \o ret'[k].args[1]
           /\ calls'[k][1].err = NilErr
           /\ OutputHasLine(calls'[k][1].out, "Everything is Ok")

C3_NoError ==
    \A k \in Handles : TestReturned(k) => ret[k].err = NilErr /\ ~exited

\* C3: a TestPassword step returns true only from a handle with a Type and
\* the Encrypted flag, on a test run that exited with status zero and
\* printed the confirmation line; TestPassword never returns an error.
C3_TrueOnlyIfConfirmed == [][C3_TrueStep]_vars /\ []C3_NoError

\* TestPassword has returned true on an output of several lines that end in
\* carriage return and newline.
C3_Witness ==
    \E k \in Handles :
        /\ TestReturned(k)
        /\ ret[k].val
        /\ ret[k].args = <<"pw">>
        /\ calls[k][1].out = "Testing archive: a.7z\r\n\r\nEverything is Ok\r\n"

(***************************************************************************)
(* C4: whenever the output of the test run has a line containing "Wrong    *)
(* password?", TestPassword returns false, wherever that line stands       *)
(* relative to an "Everything is Ok" line.                                 *)
(***************************************************************************)
C4_WrongPasswordIsFalse ==
    \A k \in Handles :
        (/\ TestReturned(k)
         /\ Len(calls[k]) = 1
         /\ OutputHasLineWith(calls[k][1].out, "Wrong password?"))
        => ~ret[k].val

OperationFailed(k) ==
    /\ pc[k] = "ready"
    /\ Len(calls[k]) >= 1
    /\ \/ ret[k].op = "Open" /\ ret[k].err # NilErr
       \/ ret[k].op = "TestPassword" /\ ~ret[k].val
       \/ ret[k].op \in {"ExtractTo", "ExtractWithPassword"} /\ ret[k].err # NilErr

C6_ErrorStateIsOutput ==
    \A k \in Handles :
        OperationFailed(k) => f[k].ErrorState = calls[k][Len(calls[k])].out

(***************************************************************************)
(* The simple listing (l): outputs, line by line, and the runs of Open     *)
(* that read them                                                          *)
(***************************************************************************)
ListLines == {"--", "", "ERROR: l", "ERROR: encrypted archive", "row"}

FreeSimpleListings == {Unlines(ls) : ls \in SeqsUpTo(ListLines, MaxLines)}

\* Simple listings as the tool prints them, with either end of line, one
\* that stops without a newline, and one the scanner cannot take.
OddSimpleListings ==
    {"banner\r\n--\r\nDate Name\r\n\r\nrow\r\n",
     "banner\n--\nDate Name\n-- --\nrow\n--\n\nERROR: late",
     "ERROR: l\nERROR: m\n--\nrow\n",
     "ERROR: l\n" \o TooLongOutput,
     TooLongOutput}

SimpleOutputs == FreeSimpleListings \cup OddSimpleListings

\* Detailed listings whose parse goes on to the simple listing.
ListedDetOutputs ==
    {"--\nType = Zip\n----------\n",
     "--\nType = 7z\nEncrypted = +\n----------\nPath = a\n\n"}

\* Open on one handle, over every simple listing.
NextListing ==
    \E k \in {1} :
        \/ Open(k, ListedDetOutputs)
        \/ getInfo_Step(k)
        \/ getInfo_End(k, SimpleOutputs)
        \/ getListing_Step(k)
        \/ getListing_End(k)

SpecListing == Init /\ [][NextListing]_vars

\* Open has returned after a simple-listing run that exited with status zero.
SimpleRan(k) ==
    /\ OpenReturned(k)
    /\ Len(calls[k]) = 2
    /\ IsSimpleRun(calls[k][2], f[k].File)
    /\ calls[k][2].err = NilErr

SimpleLines(k) == ScanLines(calls[k][2].out)

\* The lines after the first "--" line (none if there is no such line).
AfterFirstDashes(lines) ==
    IF PreambleEnd(lines) = 0
    THEN << >>
    ELSE SubSeq(lines, PreambleEnd(lines) + 1, Len(lines))

\* What the claim says of the simple listing read by handle k.
ListingAsClaimed(k) ==
    LET lines == SimpleLines(k)
        errs  == ErrorLines(PreambleOf(lines))
    IN  IF errs = {}
        THEN /\ ret[k].err = NilErr
             /\ f[k].Listing = JoinLines(AfterFirstDashes(lines), "\n")
        ELSE ret[k].err = errors_New(lines[FirstOf(errs)])

(***************************************************************************)
(* C11 as stated: for every simple-listing output (exit status zero) with  *)
(* no "ERROR:" line before its first "--" line, Listing after Open is the  *)
(* concatenation, in order, of every line after the first "--" line, each  *)
(* followed by one newline; an "ERROR:" line before the first "--" makes   *)
(* the pass fail with that line as the error.                              *)
(***************************************************************************)
C11_AnyOutput == \A k \in Handles : SimpleRan(k) => ListingAsClaimed(k)

(***************************************************************************)
(* C11: the same for every simple-listing output whose lines all fit the   *)
(* scanner's buffer: Listing holds every line after the first "--", blank  *)
(* lines and later "--" lines included, each followed by one newline, and  *)
(* nothing of the preamble; the first "ERROR:" line of the preamble,       *)
(* the encrypted-archive one included, is the error Open returns.          *)
(***************************************************************************)
C11_ScannedOutput ==
    \A k \in Handles :
        (SimpleRan(k) /\ ~ScanTooLong(calls[k][2].out)) => ListingAsClaimed(k)

\* Open has returned with the text of a listing whose lines end in carriage
\* return and newline: the header row, the blank line and the row below it.
C11_Witness ==
    \E k \in Handles :
        /\ SimpleRan(k)
        /\ calls[k][2].out = "banner\r\n--\r\nDate Name\r\n\r\nrow\r\n"
        /\ ret[k].err = NilErr
        /\ f[k].Listing = "Date Name\n\nrow\n"

(***************************************************************************)
(* C12: the Password field is set by a successful password test and by     *)
(* nothing else: after TestPassword(p) has returned true the handle's      *)
(* Password is p, and while no test has returned true it is empty.         *)
(***************************************************************************)
C12_PasswordOfLastTest ==
    \A k \in Handles :
        /\ (TestReturned(k) /\ ret[k].val) => f[k].Password = ret[k].args[1]
        /\ (pc[k] # "ready" \/ ret[k].op = "Open") => f[k].Password = ""

(***************************************************************************)
(* Two handles in one process                                              *)
(***************************************************************************)
TwoDetOutputs ==
    {"ERROR: a.7z: Can not open encrypted archive. Wrong password?\n",
     "--\nType = 7z\nEncrypted = +\n----------\nPath = a\n\n"}

TwoListOutputs == {"--\nrow\n"}

TwoOpOutputs == {"Everything is Ok\n", TooLongOutput}

\* Any interleaving of the steps of Open, TestPassword and ExtractTo (which
\* is ExtractWithPassword with no password) on the two handles.
NextTwo ==
    \E k \in Handles :
        \/ Open(k, TwoDetOutputs)
        \/ getInfo_Step(k)
        \/ getInfo_End(k, TwoListOutputs)
        \/ getListing_Step(k)
        \/ getListing_End(k)
        \/ TestPassword(k, TwoOpOutputs)
        \/ ExtractTo(k, TwoOpOutputs)

SpecTwo == Init /\ [][NextTwo]_vars

\* The runs of the tool that Open made on handles a and b had the same
\* arguments, outputs and exit statuses.
SameRuns(a, b) == calls[a] = calls[b]

Parsing(k) == pc[k] \in {"getInfo", "getListing"}

\* Exactly one of the three flags of the cursor is set.
OneBlock(c) ==
    \/ c.Preamble /\ ~c.Header /\ ~c.Entries
    \/ ~c.Preamble /\ c.Header /\ ~c.Entries
    \/ ~c.Preamble /\ ~c.Header /\ c.Entries

\* The cursor of a running pass, and what Next makes of it.
C14_CursorState ==
    \A k \in Handles :
        Parsing(k) =>
            LET c == frame[k].cursor
                n == TCursor_Next(c)
            IN  /\ OneBlock(c)
                /\ OneBlock(n)
                /\ c.Preamble => n.Header
                /\ c.Header => n.Entries
                /\ c.Entries => n = c

\* A pass starts in the Preamble; a step inside a pass leaves the cursor as it
\* is or moves it by one Next.
C14_CursorStep ==
    \A k \in Handles :
        /\ (Parsing(k)' /\ pc'[k] # pc[k]) => frame'[k].cursor.Preamble
        /\ (Parsing(k) /\ pc'[k] = pc[k])
           => frame'[k].cursor \in {frame[k].cursor, TCursor_Next(frame[k].cursor)}

(***************************************************************************)
(* C14: after Start, in every state reached by Next calls exactly one of   *)
(* Preamble, Header and Entries is true; the cursor only moves forward,    *)
(* Preamble to Header to Entries, never skipping Header; Next in Entries   *)
(* changes nothing; within one parse pass the cursor is never reset.       *)
(***************************************************************************)
C14_BlockCursor == [][C14_CursorStep]_vars /\ []C14_CursorState

\* The second pass of Open, which started over in the Preamble, has reached
\* the Entries block while the first pass had reached it too (it left Entries).
C14_Witness ==
    \E k \in Handles :
        /\ pc[k] = "getListing"
        /\ frame[k].cursor.Entries
        /\ f[k].Entries # << >>

(***************************************************************************)
(* The lines of a detailed listing by the block in which getInfo reads     *)
(* them                                                                    *)
(***************************************************************************)
\* Handle k takes the next line of the detailed listing in this step.
TakesLine(k) ==
    /\ pc[k] = "getInfo"
    /\ frame[k].i <= Len(frame[k].lines)
    /\ frame'[k] # frame[k] \/ pc'[k] # pc[k]

LineTaken(k) == frame[k].lines[frame[k].i]

IsEncryptedLine(line) == HasPrefix(line, "Encrypted = ")

\* The parse of handle k did not end on the encrypted-archive line.
NonSentinelParse(k) ==
    LET errs == ErrorLines(PreambleOf(DetailedLines(k)))
    IN  errs = {} \/ ~IsSentinelLine(DetailedLines(k)[FirstOf(errs)])

\* The lines read in the Header block: those after the first "--", up to the
\* first "----------" after it; none if the preamble has an "ERROR:" line.
HeaderPhaseLines(k) ==
    LET lines == DetailedLines(k)
    IN  IF ErrorLines(PreambleOf(lines)) # {} \/ PreambleEnd(lines) = 0
        THEN << >>
        ELSE IF HeaderEnd(lines) = 0
             THEN SubSeq(lines, PreambleEnd(lines) + 1, Len(lines))
             ELSE HeaderLinesOf(lines)

\* The lines read in the Entries block: those after that "----------", if
\* the parse went past it.
EntriesPhaseLines(k) ==
    LET lines == DetailedLines(k)
    IN  IF \/ ErrorLines(PreambleOf(lines)) # {}
           \/ HeaderEnd(lines) = 0
           \/ ret[k].err = NoTypeError
        THEN << >>
        ELSE EntryLinesOf(lines)

\* One line of the Header or Entries block and the Encrypted flag.
C15_FlagStep ==
    \A k \in Handles :
        TakesLine(k) =>
            LET c == frame[k].cursor
                line == LineTaken(k)
            IN  /\ (c.Header /\ IsEncryptedLine(line))
                   => f'[k].Encrypted = HasSuffix(line, "+")
                /\ (c.Header /\ ~IsEncryptedLine(line))
                   => f'[k].Encrypted = f[k].Encrypted
                /\ c.Entries
                   => f'[k].Encrypted =
                        (f[k].Encrypted \/ (IsEncryptedLine(line) /\ HasSuffix(line, "+")))

\* The flag Open leaves behind.
C15_FinalFlag ==
    \A k \in Handles :
        (OpenReturned(k) /\ DetailedScanned(k) /\ NonSentinelParse(k)) =>
            LET hdr == HeaderPhaseLines(k)
                ent == EntriesPhaseLines(k)
                he  == {n \in 1..Len(hdr) : IsEncryptedLine(hdr[n])}
            IN  f[k].Encrypted =
                    (\/ he # {} /\ HasSuffix(hdr[LastOf(he)], "+")
                     \/ \E n \in 1..Len(ent) :
                           IsEncryptedLine(ent[n]) /\ HasSuffix(ent[n], "+"))

(***************************************************************************)
(* C15: in a parse that does not end on the encrypted-archive line, each   *)
(* Header line beginning with "Encrypted = " sets the flag to whether the  *)
(* line ends with "+" (a later header line can set it back to false); an   *)
(* Entries line beginning with "Encrypted = " and ending with "+" sets it  *)
(* to true and no Entries line sets it to false; the final flag is true    *)
(* iff the last such header line ends with "+" or some such entry line     *)
(* ends with "+".                                                          *)
(***************************************************************************)
C15_EncryptedFlag == [][C15_FlagStep]_vars /\ []C15_FinalFlag

\* Open has returned with the flag set: the header said "+" and then "-",
\* an entry said "+" and a later entry said "-".
C15_Witness ==
    \E k \in Handles :
        /\ OpenReturned(k)
        /\ DetailedScanned(k)
        /\ f[k].Encrypted
        /\ LET hdr == HeaderPhaseLines(k)
               ent == EntriesPhaseLines(k)
           IN  /\ \E m, n \in 1..Len(hdr) :
                     m < n /\ hdr[m] = "Encrypted = +" /\ hdr[n] = "Encrypted = -"
               /\ \E m, n \in 1..Len(ent) :
                     m < n /\ ent[m] = "Encrypted = +" /\ ent[n] = "Encrypted = -"

(***************************************************************************)
(* C16: for every Header line that begins with "Type = ", the Type         *)
(* recorded is exactly the rest of the line after that 7-character prefix, *)
(* also when the rest itself contains "Type = ", and it equals the value   *)
(* stored under the key "Type" in Header.                                  *)
(***************************************************************************)
C16_TypeStep ==
    \A k \in Handles :
        (TakesLine(k) /\ frame[k].cursor.Header /\ HasPrefix(LineTaken(k), "Type = "))
        => /\ f'[k].Type = SubSeq(LineTaken(k), 8, Len(LineTaken(k)))
           /\ "Type" \in DOMAIN f'[k].Header.Data
           /\ f'[k].Header.Data["Type"] = f'[k].Type

C16_TypeIsRemainder == [][C16_TypeStep]_vars

(***************************************************************************)
(* C17: a line is split at its first " = " into key and value; only when   *)
(* " = " is absent, and only for Header lines, it is split at its first    *)
(* ": "; an Entry line without " = " records nothing even if it holds      *)
(* ": "; a line with neither separator records nothing; a repeated key     *)
(* takes the later value and no other key changes.                         *)
(***************************************************************************)
\* Mapping m2 is mapping m after line was recorded in it.
RecordsLine(m, m2, line, header) ==
    IF SeparatorOf(line, header) = ""
    THEN m2 = m
    ELSE /\ DOMAIN m2 = (DOMAIN m) \cup {KeyOf(line, header)}
         /\ m2[KeyOf(line, header)] = ValueOf(line, header)
         /\ \A x \in (DOMAIN m) \ {KeyOf(line, header)} : m2[x] = m[x]

C17_RecordStep ==
    \A k \in Handles :
        TakesLine(k) =>
            LET c == frame[k].cursor
                line == LineTaken(k)
            IN  /\ (c.Header /\ line \notin {"", "----------"})
                   => RecordsLine(f[k].Header.Data, f'[k].Header.Data, line, TRUE)
                /\ (c.Entries /\ line # "")
                   => RecordsLine(frame[k].entry.Data, frame'[k].entry.Data, line, FALSE)

C17_KeyValueExtractor == [][C17_RecordStep]_vars

\* Open has returned with a Header in which "a: b" replaced the value that
\* "a = b = c" gave to key a, and an Entry in which "k: v = w: x" was split at
\* " = " and "a = " replaced the value of a; "no separator" left no key.
C17_Witness ==
    \E k \in Handles :
        /\ OpenReturned(k)
        /\ f[k].Header = [Data |-> [x \in {"Type", "a"} |-> IF x = "Type" THEN "Zip" ELSE "b"]]
        /\ f[k].Entries =
              <<[Data |-> [x \in {"k: v", "a"} |-> IF x = "a" THEN "" ELSE "w: x"]]>>

(***************************************************************************)
(* C18: after Open has returned, TestPassword, ExtractTo and               *)
(* ExtractWithPassword leave File, Type, Encrypted, Header, Entries and    *)
(* Listing as they are, whatever the tool prints and however it exits; a   *)
(* TestPassword call made while Type is empty or Encrypted is false        *)
(* returns false, runs no tool and changes no field of the handle.         *)
(***************************************************************************)
\* What Open has parsed into the handle.
ParsedFields(t) ==
    [File |-> t.File, Type |-> t.Type, Encrypted |-> t.Encrypted,
     Header |-> t.Header, Entries |-> t.Entries, Listing |-> t.Listing]

C18_OperationStep ==
    \A k \in Handles :
        /\ pc[k] = "ready" => ParsedFields(f'[k]) = ParsedFields(f[k])
        /\ (/\ pc[k] = "ready"
            /\ f[k].Type = "" \/ ~f[k].Encrypted
            /\ ret'[k].op = "TestPassword"
            /\ ret'[k] # ret[k] \/ calls'[k] # calls[k])
           => /\ ~ret'[k].val
              /\ calls'[k] = << >>
              /\ f'[k] = f[k]

C18_ReadOnlyAfterOpen == [][C18_OperationStep]_vars

\* TestPassword has returned false, without a run of the tool, on a handle
\* that Open filled from a listing of an archive that is not encrypted.
C18_Witness ==
    \E k \in Handles :
        /\ TestReturned(k)
        /\ ~ret[k].val
        /\ calls[k] = << >>
        /\ f[k].Type = "Zip"
        /\ ~f[k].Encrypted
        /\ Len(f[k].Entries) = 1
        /\ f[k].Listing # ""

(***************************************************************************)
(* C19: in the Entries block the number of Entries appended is the number  *)
(* of blank lines after the "----------" delimiter: each blank line        *)
(* appends the Entry in progress, also when it holds no key; an Entry that *)
(* was appended is not modified by later lines; the key/value lines after  *)
(* the last blank line are in no Entry.                                    *)
(***************************************************************************)
\* Sequence s is the beginning of sequence t.
IsPrefix(s, t) == Len(s) <= Len(t) /\ SubSeq(t, 1, Len(s)) = s

C19_EntriesStep ==
    \A k \in Handles :
        /\ pc[k] # "new" => IsPrefix(f[k].Entries, f'[k].Entries)
        /\ (TakesLine(k) /\ frame[k].cursor.Entries)
           => IF LineTaken(k) = ""
              THEN f'[k].Entries = Append(f[k].Entries, frame[k].entry)
              ELSE f'[k].Entries = f[k].Entries

C19_EntriesOfBlankLines ==
    \A k \in Handles :
        (OpenReturned(k) /\ DetailedScanned(k)) =>
            LET ent == EntriesPhaseLines(k)
            IN  /\ Len(f[k].Entries) = Cardinality(Blanks(ent))
                /\ \A i \in 1..Len(f[k].Entries) :
                      f[k].Entries[i] = [Data |-> MappingOf(StanzaOf(ent, i), FALSE)]

C19_EntryPerBlankLine == [][C19_EntriesStep]_vars /\ []C19_EntriesOfBlankLines

\* Open has returned with two Entries without keys, from two blank lines in
\* a row right after the delimiter; the line "Path = a" that follows them,
\* with no blank line after it, is in no Entry.
C19_Witness ==
    \E k \in Handles :
        /\ OpenReturned(k)
        /\ calls[k][1].out = "--\nType = Zip\n----------\n\n\nPath = a\n"
        /\ calls[k][1].err = NilErr
        /\ f[k].Entries = <<newEntry, newEntry>>

(***************************************************************************)
(* The operations run on their own, from the runs of the tool they made    *)
(***************************************************************************)
\* The loop of getInfo, lines 179-237, from the locals fr to its end.
RECURSIVE getInfo_Loop(_, _)
getInfo_Loop(t, fr) ==
    IF fr.i > Len(fr.lines)
    THEN [t |-> t, returned |-> FALSE, err |-> NilErr]
    ELSE LET r == getInfo_Line(t, fr, fr.lines[fr.i])
         IN  IF r.returned
             THEN [t |-> r.t, returned |-> TRUE, err |-> r.err]
             ELSE getInfo_Loop(r.t, r.fr)

\* The loop of getListing, lines 121-145.
RECURSIVE getListing_Loop(_, _)
getListing_Loop(t, fr) ==
    IF fr.i > Len(fr.lines)
    THEN [t |-> t, returned |-> FALSE, err |-> NilErr]
    ELSE LET r == getListing_Line(t, fr, fr.lines[fr.i])
         IN  IF r.returned
             THEN [t |-> r.t, returned |-> TRUE, err |-> r.err]
             ELSE getListing_Loop(r.t, r.fr)

\* The locals at the start of a loop over the lines of data.
LoopStart(data) ==
    [lines |-> ScanLines(data), i |-> 1, cursor |-> TCursor_Start(TCursor), entry |-> newEntry]

\* getListing, lines 95-147, on the run simple of the tool.
getListing(t, simple) ==
    IF simple.err # NilErr
    THEN [t |-> [t EXCEPT !.ErrorState = simple.out], err |-> simple.err]
    ELSE IF ScanTooLong(simple.out)
         THEN [t |-> t, err |-> ErrTooLong]
         ELSE LET r == getListing_Loop(t, LoopStart(simple.out))
              IN  [t |-> r.t, err |-> r.err]

\* Open(file), lines 63-67 and 149-242, on the runs of the tool it made:
\* the handle and the error it returns.
OpenAlone(file, runs) ==
    LET t0 == [TFile EXCEPT !.File = file]
        detailed == runs[1]
    IN  IF detailed.err # NilErr
        THEN [t |-> [t0 EXCEPT !.ErrorState = detailed.out], err |-> detailed.err]
        ELSE IF ScanTooLong(detailed.out)
             THEN [t |-> t0, err |-> ErrTooLong]
             ELSE LET r == getInfo_Loop([t0 EXCEPT !.Header = newHeader],
                                        LoopStart(detailed.out))
                  IN  IF r.returned
                      THEN [t |-> r.t, err |-> r.err]
                      ELSE getListing(r.t, runs[2])

\* TestPassword, lines 245-280, on handle value t and the runs it made.
TestPasswordAlone(t, runs) ==
    IF t.Type = "" \/ ~t.Encrypted
    THEN [t |-> t, val |-> FALSE]
    ELSE IF runs[1].err # NilErr
         THEN [t |-> [t EXCEPT !.ErrorState = runs[1].out], val |-> FALSE]
         ELSE IF ScanTooLong(runs[1].out)
              THEN [t |-> t, val |-> FALSE]
              ELSE [t |-> t, val |-> TestPassword_Loop(ScanLines(runs[1].out))]

\* ExtractWithPassword, lines 288-312, when it returns.
ExtractAlone(t, runs) ==
    [t |-> t, err |-> ExtractWithPassword_Loop(ScanLines(runs[1].out), runs[1].out)]

\* All that the model keeps for handle k.
HandleState(k) == <<f[k], pc[k], frame[k], calls[k], ret[k]>>

(***************************************************************************)
(* C20: operations on two distinct handles do not interfere: in every      *)
(* interleaving of the steps of Open, TestPassword and extraction on the   *)
(* two handles, with the executable name unchanged, no step on one handle  *)
(* writes anything of the other, and the fields of a handle and the        *)
(* results returned for it are those of its operations run on their own    *)
(* with the same runs of the tool.                                         *)
(***************************************************************************)
C20_OneHandleStep ==
    /\ BINARY_NAME' = BINARY_NAME
    /\ \A a, b \in Handles :
          (a # b /\ HandleState(b)' # HandleState(b)) => HandleState(a)' = HandleState(a)
    /\ \A a \in Handles :
          (pc[a] = "ready" /\ HandleState(a)' # HandleState(a)) =>
              /\ ret'[a].op = "TestPassword"
                 => /\ f'[a] = TestPasswordAlone(f[a], calls'[a]).t
                    /\ ret'[a].val = TestPasswordAlone(f[a], calls'[a]).val
              /\ ret'[a].op = "ExtractTo"
                 => /\ f'[a] = ExtractAlone(f[a], calls'[a]).t
                    /\ ret'[a].err = ExtractAlone(f[a], calls'[a]).err

C20_OpenAsAlone ==
    \A a \in Handles :
        OpenReturned(a) =>
            /\ f[a] = OpenAlone(f[a].File, calls[a]).t
            /\ ret[a].err = OpenAlone(f[a].File, calls[a]).err

C20_NoInterference == [][C20_OneHandleStep]_vars /\ []C20_OpenAsAlone

\* Open has returned on handle 1 with an Entry and a listing text, and on
\* handle 2 Open found the archive encrypted and a password test has since
\* returned true.
C20_Witness ==
    /\ OpenReturned(1)
    /\ Len(f[1].Entries) = 1
    /\ f[1].Listing = "row\n"
    /\ TestReturned(2)
    /\ ret[2].val
    /\ f[2].Type = "encrypted archive"

====
